---- MODULE Spec2Model ----
(***************************************************************************)
(* Model of typing_train.py: the blank selector (process_sentence), the    *)
(* progress store (save_progress / load_progress / record_practiced_word / *)
(* load_words_from_file) and the interactive session loop of main().       *)
(*                                                                         *)
(* A Python str is a sequence of one-character strings.  The two CJK       *)
(* ideographs U+4E2D and U+6587 are written "U4E2D" and "U6587"; each      *)
(* stands for ONE character of the range U+4E00..U+9FFF.               *)
(***************************************************************************)
EXTENDS Integers, Sequences, FiniteSets, TLC

VARIABLES sentences, four_words, high_freq_words, practiced_words,
          practiced_file, progress_file, current_index, modified, answer,
          prev_sentence, prev_answer, user_input, output, pc, runs, jumps

vars == <<sentences, four_words, high_freq_words, practiced_words,
          practiced_file, progress_file, current_index, modified, answer,
          prev_sentence, prev_answer, user_input, output, pc, runs, jumps>>

----------------------------------------------------------------------------
(* Bounds of the exploration.                                              *)

\* longest sentence of the exhaustively enumerated one-sentence texts
MaxLen == 4
\* largest index handed to save_progress on its own
MaxSaved == 120

\* number of times the program is started again after it ended
MaxRuns == 1
\* number of successful jumps, over all runs
MaxJumps == 1

----------------------------------------------------------------------------
(* Characters and strings.                                                 *)

UpperSeq == <<"A","B","C","D","E","F","G","H","I","J","K","L","M",
              "N","O","P","Q","R","S","T","U","V","W","X","Y","Z">>
LowerSeq == <<"a","b","c","d","e","f","g","h","i","j","k","l","m",
              "n","o","p","q","r","s","t","u","v","w","x","y","z">>
DigitSeq == <<"0","1","2","3","4","5","6","7","8","9">>

Range(f) == {f[i] : i \in DOMAIN f}

UpperSet == Range(UpperSeq)
LowerSet == Range(LowerSeq)
DigitSet == Range(DigitSeq)

\* [a-zA-Z]
IsLatin(c) == c \in UpperSet \/ c \in LowerSet
\* [\u4e00-\u9fff]
IsCJK(c) == c \in {"U4E2D", "U6587"}
\* [^\u4e00-\u9fff^a-zA-Z] : the second ^ is a literal caret inside the class
IsSuffixChar(c) == ~IsCJK(c) /\ c # "^" /\ ~IsLatin(c)
\* str.isspace for the characters used here
IsSpace(c) == c \in {" ", "\n", "\t"}
IsDigit(c) == c \in DigitSet

\* the lower-case letter of each upper-case letter
LowerOf ==
    [c \in UpperSet |-> LowerSeq[CHOOSE i \in DOMAIN UpperSeq : UpperSeq[i] = c]]

\* str.lower on one character
LowerChar(c) == IF c \in UpperSet THEN LowerOf[c] ELSE c
\* str.lower
Lower(s) == [i \in DOMAIN s |-> LowerChar(s[i])]

\* str.strip
RECURSIVE LStrip(_)
LStrip(s) == IF s # <<>> /\ IsSpace(Head(s)) THEN LStrip(Tail(s)) ELSE s
RECURSIVE RStrip(_)
RStrip(s) ==
    IF s # <<>> /\ IsSpace(s[Len(s)])
    THEN RStrip(SubSeq(s, 1, Len(s) - 1))
    ELSE s
Strip(s) == RStrip(LStrip(s))

\* s.startswith(p)
StartsWith(s, p) == Len(p) <= Len(s) /\ SubSeq(s, 1, Len(p)) = p

\* str.replace(old, new) for a non-empty old: every non-overlapping
\* occurrence, scanning from the left
RECURSIVE Replace(_, _, _)
Replace(s, old, new) ==
    IF s = <<>> THEN <<>>
    ELSE IF StartsWith(s, old)
         THEN new \o Replace(SubSeq(s, Len(old) + 1, Len(s)), old, new)
         ELSE <<Head(s)>> \o Replace(Tail(s), old, new)

\* ''.join(parts)
RECURSIVE Join(_)
Join(parts) == IF parts = <<>> THEN <<>> ELSE Head(parts) \o Join(Tail(parts))

\* str(n) for an int
RECURSIVE NatToStr(_)
NatToStr(n) ==
    IF n < 10 THEN <<DigitSeq[n + 1]>>
    ELSE NatToStr(n \div 10) \o <<DigitSeq[(n % 10) + 1]>>
\* str(n) cut to its last digit
IntToStr_LastDigit(n) == <<DigitSeq[(n % 10) + 1]>>

IntToStr(n) == IF n < 0 THEN <<"-">> \o NatToStr(-n) ELSE NatToStr(n)

DigitValOf ==
    [c \in DigitSet |-> (CHOOSE i \in DOMAIN DigitSeq : DigitSeq[i] = c) - 1]
DigitVal(c) == DigitValOf[c]
RECURSIVE DigitsVal(_, _)
DigitsVal(s, acc) ==
    IF s = <<>> THEN acc
    ELSE IF Head(s) = "_" THEN DigitsVal(Tail(s), acc)
         ELSE DigitsVal(Tail(s), acc * 10 + DigitVal(Head(s)))

\* the digit part of an int literal: digits, single underscores between them
IsDigitBody(b) ==
    /\ b # <<>>
    /\ \A i \in DOMAIN b : IsDigit(b[i]) \/ b[i] = "_"
    /\ IsDigit(b[1]) /\ IsDigit(b[Len(b)])
    /\ \A i \in 1..(Len(b) - 1) : ~(b[i] = "_" /\ b[i + 1] = "_")

\* int(s): ok = FALSE stands for ValueError
ParseInt(s) ==
    LET t == Strip(s)
        signed == t # <<>> /\ Head(t) \in {"+", "-"}
        body == IF signed THEN Tail(t) ELSE t
    IN  IF IsDigitBody(body)
        THEN [ok |-> TRUE,
              val |-> IF signed /\ Head(t) = "-"
                      THEN 0 - DigitsVal(body, 0) ELSE DigitsVal(body, 0)]
        ELSE [ok |-> FALSE, val |-> 0]

----------------------------------------------------------------------------
(* process_sentence.                                                       *)

\* first position >= pos of s whose character is not a CJK ideograph
RECURSIVE SkipCJK(_, _)
SkipCJK(s, pos) ==
    IF pos <= Len(s) /\ IsCJK(s[pos]) THEN SkipCJK(s, pos + 1) ELSE pos
\* first position >= pos of s whose character is not a Latin letter
RECURSIVE SkipLatin(_, _)
SkipLatin(s, pos) ==
    IF pos <= Len(s) /\ IsLatin(s[pos]) THEN SkipLatin(s, pos + 1) ELSE pos
\* first position >= pos of s whose character is not in the suffix class
RECURSIVE SkipSuffix(_, _)
SkipSuffix(s, pos) ==
    IF pos <= Len(s) /\ IsSuffixChar(s[pos]) THEN SkipSuffix(s, pos + 1) ELSE pos

\* re.findall(r'([\u4e00-\u9fff]+|[a-zA-Z]+)([^\u4e00-\u9fff^a-zA-Z]*)', s)
\* scanning from position pos: a position where no core starts is passed over
FindAll(s, pos) ==
    LET scan[p \in pos..(Len(s) + 1)] ==
            IF p > Len(s) THEN <<>>
            ELSE IF IsCJK(s[p]) \/ IsLatin(s[p])
                 THEN LET coreEnd == IF IsCJK(s[p]) THEN SkipCJK(s, p)
                                                    ELSE SkipLatin(s, p)
                          sufEnd == SkipSuffix(s, coreEnd)
                      IN  <<  <<SubSeq(s, p, coreEnd - 1),
                                SubSeq(s, coreEnd, sufEnd - 1)>>  >>
                          \o scan[sufEnd]
                 ELSE scan[p + 1]
    IN  scan[pos]

Tokenize(sentence) == FindAll(sentence, 1)

\* token i (0-based, as enumerate yields it)
Core(tokens, i) == tokens[i + 1][1]
TokenIndices(tokens) == 0..(Len(tokens) - 1)

primary_candidates(tokens, fw, hf, pw) ==
    IF fw # {} /\ hf # {} /\ pw # {}
    THEN {i \in TokenIndices(tokens) :
            /\ Core(tokens, i) \in fw
            /\ Lower(Core(tokens, i)) \in {Lower(w) : w \in fw}
            /\ Lower(Core(tokens, i)) \notin hf
            /\ Lower(Core(tokens, i)) \notin pw}
    ELSE {}

secondary_candidates(tokens, hf, pw) ==
    IF hf # {} /\ pw # {}
    THEN {i \in TokenIndices(tokens) :
            /\ Lower(Core(tokens, i)) \notin hf
            /\ Lower(Core(tokens, i)) \notin pw}
    ELSE {}

\* ChoiceSet with the first tier ignored
ChoiceSet_Tier2First(tokens, fw, hf, pw) ==
    IF secondary_candidates(tokens, hf, pw) # {}
    THEN secondary_candidates(tokens, hf, pw)
    ELSE TokenIndices(tokens)

\* ChoiceSet whose fallback always takes the first token
ChoiceSet_FallbackFirst(tokens, fw, hf, pw) ==
    IF primary_candidates(tokens, fw, hf, pw) # {}
    THEN primary_candidates(tokens, fw, hf, pw)
    ELSE IF secondary_candidates(tokens, hf, pw) # {}
         THEN secondary_candidates(tokens, hf, pw)
         ELSE {0}

\* the indices random.choice / random.randint can return
ChoiceSet(tokens, fw, hf, pw) ==
    IF primary_candidates(tokens, fw, hf, pw) # {}
    THEN primary_candidates(tokens, fw, hf, pw)
    ELSE IF secondary_candidates(tokens, hf, pw) # {}
         THEN secondary_candidates(tokens, hf, pw)
         ELSE TokenIndices(tokens)

Placeholder == <<"_", "_", "_", "_", "_">>

\* ''.join(modified) for the chosen index
Blank(tokens, chosen) ==
    Join([k \in DOMAIN tokens |->
            IF k - 1 = chosen THEN Placeholder \o tokens[k][2]
                              ELSE tokens[k][1] \o tokens[k][2]])

----------------------------------------------------------------------------
(* Files.  A file is [exists, content]; a missing file has content <<>>.   *)

NoFile == [exists |-> FALSE, content |-> <<>>]
FileOf(text) == [exists |-> TRUE, content |-> text]

\* the lines a text file iterates over, without their line terminator
RECURSIVE SplitLines(_, _)
SplitLines(text, cur) ==
    IF text = <<>> THEN (IF cur = <<>> THEN <<>> ELSE <<cur>>)
    ELSE IF Head(text) = "\n" THEN <<cur>> \o SplitLines(Tail(text), <<>>)
         ELSE SplitLines(Tail(text), Append(cur, Head(text)))

load_words_from_file(file) ==
    IF file.exists
    THEN {Strip(l) : l \in {m \in Range(SplitLines(file.content, <<>>)) :
                               Strip(m) # <<>>}}
    ELSE {}

\* the log opened for writing instead of appending
record_practiced_word_Overwrites(word, file) == FileOf(word \o <<"\n">>)

record_practiced_word(word, file) == FileOf(file.content \o word \o <<"\n">>)

save_progress(progress) == FileOf(IntToStr(progress))

load_progress(file) ==
    IF file.exists
    THEN LET r == ParseInt(Strip(file.content))
         IN  IF r.ok THEN r.val ELSE 0
    ELSE 0

----------------------------------------------------------------------------
(* The texts, word lists and files the exploration starts from.            *)

S_apple == <<"T","h","e"," ","a","p","p","l","e"," ","i","s"," ","r","e","d",".">>
S_cat == <<"T","h","e"," ","c","a","t",".">>
S_dogs == <<"D","o","g","s"," ","b","a","r","k",".">>
S_say == <<"S","a","y"," ","q",".">>
S_num == <<"4","2","!">>
S_go == <<"G","o"," ","o","n",".">>
S_three == <<"3"," ","c","a","t","s",".">>
S_ok == <<"O","k",".">>

W_apple == <<"a","p","p","l","e">>
W_Apple == <<"A","p","p","l","e">>
W_the == <<"t","h","e">>
W_The == <<"T","h","e">>
W_cat == <<"c","a","t">>
W_Dogs == <<"D","o","g","s">>
W_a == <<"a">>
W_A == <<"A">>
W_q == <<"q">>

\* sentence lists read_practice_text can return
\* texts practised with word lists, from the first sentence
VocabularyTexts == { <<S_apple>>, <<S_cat, S_dogs>> }
\* texts practised without word lists, from any saved position
ResumedTexts == { <<S_say, S_num, S_go>>, <<S_three, S_num>>, <<>> }
\* a text whose last sentence has no token, from its start or its last sentence
TrailingTexts == { <<S_three, S_ok, S_num>> }
TrailingProgress == { NoFile, FileOf(<<" ", "2", "\n">>) }

\* [fw: vocabulary file, hf: high-frequency file, log: practiced_words.txt]
WordSetups ==
    { [fw |-> {}, hf |-> {}, log |-> NoFile],
      [fw |-> {W_apple}, hf |-> {W_the}, log |-> NoFile],
      [fw |-> {W_apple}, hf |-> {W_the}, log |-> FileOf(W_cat \o <<"\n">>)],
      [fw |-> {W_apple, W_Dogs}, hf |-> {W_The},
       log |-> FileOf(W_Apple \o <<"\n", "\n", " ">> \o W_cat)] }

\* contents of the .progress file at the first start
ProgressFiles ==
    { NoFile, FileOf(<<"1">>), FileOf(<<" ", "2", "\n">>),
      FileOf(<<"-", "1">>), FileOf(<<"-", "4">>), FileOf(<<"7">>),
      FileOf(<<"x">>) }

\* characters of the exhaustively enumerated sentences
SelAlphabet == {"a", "A", "q", "U4E2D", "3", " ", ".", "^"}

SeqsUpTo(S, n) == UNION {[1..k -> S] : k \in 0..n}

\* [.!?] and the three full-width marks U+3002, U+FF01, U+FF1F
IsTerminator(c) == c \in {".", "!", "?", "U3002", "UFF01", "UFF1F"}

\* what split_sentences and the len(s) > 1 filter let through, for a text
\* that preprocess_text has normalised: at least two characters, the blank
\* the only white space, single and never last, and a sentence terminator
\* only in the final run.  A piece starts with a blank only when a
\* terminator follows it: before a terminator the pattern of line 76
\* matches the empty string and leaves the blank at the head of the piece.
IsSentence(s) ==
    /\ Len(s) > 1
    /\ s[1] = " " => IsTerminator(s[2])
    /\ s[Len(s)] # " "
    /\ \A i \in 1..Len(s) : IsSpace(s[i]) => s[i] = " "
    /\ \A i \in 1..(Len(s) - 1) : ~(s[i] = " " /\ s[i + 1] = " ")
    /\ \A i \in 1..(Len(s) - 1) : IsTerminator(s[i]) => IsTerminator(s[i + 1])

SelSentences == {s \in SeqsUpTo(SelAlphabet, MaxLen) : IsSentence(s)}

SelWordSetups ==
    { [fw |-> {}, hf |-> {}, log |-> NoFile],
      [fw |-> {W_a}, hf |-> {W_q}, log |-> NoFile],
      [fw |-> {W_a, W_A}, hf |-> {W_q}, log |-> FileOf(<<"U4E2D", "\n">>)],
      [fw |-> {W_A}, hf |-> {W_A}, log |-> FileOf(<<"Q", "\n", "a">>)] }

----------------------------------------------------------------------------
(* main(): start of a run.                                                 *)

\* None, for prev_sentence and prev_answer: the code only tests their truth
None == <<>>

\* lines 171-183: what a start of the program computes from the files
StartRun ==
    /\ practiced_words' = load_words_from_file(practiced_file)
    /\ current_index' = load_progress(progress_file)
    /\ prev_sentence' = None
    /\ prev_answer' = None
    /\ modified' = <<>>
    /\ answer' = <<>>
    /\ user_input' = <<>>
    /\ output' = <<>>
    /\ pc' = "Presenting"

InitWith(text, w, pf) ==
    /\ sentences = text
    /\ four_words = w.fw
    /\ high_freq_words = w.hf
    /\ practiced_file = w.log
    /\ progress_file = pf
    /\ practiced_words = load_words_from_file(w.log)
    /\ current_index = load_progress(pf)
    /\ prev_sentence = None
    /\ prev_answer = None
    /\ modified = <<>>
    /\ answer = <<>>
    /\ user_input = <<>>
    /\ output = <<>>
    /\ pc = "Presenting"
    /\ runs = 0
    /\ jumps = 0

NoWords == [fw |-> {}, hf |-> {}, log |-> NoFile]

Init ==
    \/ \E text \in VocabularyTexts, w \in WordSetups : InitWith(text, w, NoFile)
    \/ \E text \in ResumedTexts, pf \in ProgressFiles :
          InitWith(text, NoWords, pf)
    \/ \E text \in TrailingTexts, pf \in TrailingProgress :
          InitWith(text, NoWords, pf)

\* one-sentence texts, enumerated exhaustively, for the blank selector
InitSel ==
    \E s \in SelSentences, w \in SelWordSetups : InitWith(<<s>>, w, NoFile)

----------------------------------------------------------------------------
(* main(): the loop over the sentences, lines 185-234.                     *)

\* sentences[i] with Python's index rule; defined for -len <= i < len
InRange(i) == 0 - Len(sentences) <= i /\ i < Len(sentences)
SentenceAt(i) == IF i >= 0 THEN sentences[i + 1]
                           ELSE sentences[Len(sentences) + i + 1]

Line(kind, text) == [kind |-> kind, text |-> text]

\* lines 196-197: the position indicator and the blanked sentence
Header(i, m) ==
    << Line("position", IntToStr(i + 1) \o <<"/">> \o IntToStr(Len(sentences))),
       Line("blanked", m) >>

\* the loop leaving one sentence early
Finish_BeforeLast ==
    /\ pc = "Presenting"
    /\ ~(current_index < Len(sentences) - 1)
    /\ pc' = "Finished"
    /\ UNCHANGED <<sentences, four_words, high_freq_words, practiced_words,
                   practiced_file, progress_file, current_index, modified,
                   answer, prev_sentence, prev_answer, user_input, output,
                   runs, jumps>>

\* line 185, condition false: the loop ends and main returns
Finish ==
    /\ pc = "Presenting"
    /\ ~(current_index < Len(sentences))
    /\ pc' = "Finished"
    /\ UNCHANGED <<sentences, four_words, high_freq_words, practiced_words,
                   practiced_file, progress_file, current_index, modified,
                   answer, prev_sentence, prev_answer, user_input, output,
                   runs, jumps>>

\* line 186 raising IndexError: an index below -len(sentences)
IndexCrash ==
    /\ pc = "Presenting"
    /\ current_index < Len(sentences)
    /\ ~InRange(current_index)
    /\ pc' = "Crashed"
    /\ UNCHANGED <<sentences, four_words, high_freq_words, practiced_words,
                   practiced_file, progress_file, current_index, modified,
                   answer, prev_sentence, prev_answer, user_input, output,
                   runs, jumps>>

\* a skip that also saves the index it moves to
SkipSentence_Persists ==
    /\ pc = "Presenting"
    /\ current_index < Len(sentences)
    /\ InRange(current_index)
    /\ Tokenize(SentenceAt(current_index)) = <<>>
    /\ current_index' = current_index + 1
    /\ progress_file' = save_progress(current_index + 1)
    /\ UNCHANGED <<sentences, four_words, high_freq_words, practiced_words,
                   practiced_file, modified, answer,
                   prev_sentence, prev_answer, user_input, output, pc,
                   runs, jumps>>

\* lines 186-190: process_sentence returned None
SkipSentence ==
    /\ pc = "Presenting"
    /\ current_index < Len(sentences)
    /\ InRange(current_index)
    /\ Tokenize(SentenceAt(current_index)) = <<>>
    /\ current_index' = current_index + 1
    /\ UNCHANGED <<sentences, four_words, high_freq_words, practiced_words,
                   practiced_file, progress_file, modified, answer,
                   prev_sentence, prev_answer, user_input, output, pc,
                   runs, jumps>>

\* lines 186-197: process_sentence blanked token number chosen
PresentSentence(chosen) ==
    /\ pc = "Presenting"
    /\ current_index < Len(sentences)
    /\ InRange(current_index)
    /\ LET tokens == Tokenize(SentenceAt(current_index))
       IN  /\ tokens # <<>>
           /\ chosen \in ChoiceSet(tokens, four_words, high_freq_words,
                                   practiced_words)
           /\ modified' = Blank(tokens, chosen)
           /\ answer' = Core(tokens, chosen)
           /\ output' = Header(current_index, Blank(tokens, chosen))
    /\ pc' = "AwaitingInput"
    /\ UNCHANGED <<sentences, four_words, high_freq_words, practiced_words,
                   practiced_file, progress_file, current_index,
                   prev_sentence, prev_answer, user_input, runs, jumps>>

\* the command letters compared without lower()
Dispatch_CaseSensitive(u, ans) ==
    IF u = <<"q">> THEN "quit"
    ELSE IF u = <<"p">> THEN "previous"
    ELSE IF u = <<"g">> THEN "jump"
    ELSE IF u = ans THEN "correct"
    ELSE "wrong"

\* the branch of the if/elif chain of lines 200-233 that input u takes
Dispatch(u, ans) ==
    IF Lower(u) = <<"q">> THEN "quit"
    ELSE IF Lower(u) = <<"p">> THEN "previous"
    ELSE IF Lower(u) = <<"g">> THEN "jump"
    ELSE IF u = ans THEN "correct"
    ELSE "wrong"

\* Quit saving the index after the current one
Quit_SavesNext(inp) ==
    /\ pc = "AwaitingInput"
    /\ Dispatch(Strip(inp), answer) = "quit"
    /\ user_input' = Strip(inp)
    /\ progress_file' = save_progress(current_index + 1)
    /\ output' = <<Line("terminated", <<>>)>>
    /\ pc' = "Terminated"
    /\ UNCHANGED <<sentences, four_words, high_freq_words, practiced_words,
                   practiced_file, current_index, modified, answer,
                   prev_sentence, prev_answer, runs, jumps>>

\* lines 200-204
Quit(inp) ==
    /\ pc = "AwaitingInput"
    /\ Dispatch(Strip(inp), answer) = "quit"
    /\ user_input' = Strip(inp)
    /\ progress_file' = save_progress(current_index)
    /\ output' = <<Line("terminated", <<>>)>>
    /\ pc' = "Terminated"
    /\ UNCHANGED <<sentences, four_words, high_freq_words, practiced_words,
                   practiced_file, current_index, modified, answer,
                   prev_sentence, prev_answer, runs, jumps>>

\* lines 205-210, then 196-197 again
ShowPrevious(inp) ==
    /\ pc = "AwaitingInput"
    /\ Dispatch(Strip(inp), answer) = "previous"
    /\ user_input' = Strip(inp)
    /\ output' =
          (IF prev_sentence # <<>> /\ prev_answer # <<>>
           THEN << Line("previous",
                        Replace(prev_sentence, Placeholder, prev_answer)),
                   Line("missing", prev_answer) >>
           ELSE << Line("nothing_yet", <<>>) >>)
          \o Header(current_index, modified)
    /\ UNCHANGED <<sentences, four_words, high_freq_words, practiced_words,
                   practiced_file, progress_file, current_index, modified,
                   answer, prev_sentence, prev_answer, pc, runs, jumps>>

\* JumpTo taking the number typed as a 0-based index
JumpTo_ZeroBased(inp, number) ==
    /\ pc = "AwaitingInput"
    /\ Dispatch(Strip(inp), answer) = "jump"
    /\ jumps < MaxJumps
    /\ ParseInt(number).ok
    /\ LET target_index == ParseInt(number).val
       IN  /\ 0 <= target_index /\ target_index < Len(sentences)
           /\ current_index' = target_index
    /\ user_input' = Strip(inp)
    /\ pc' = "Presenting"
    /\ jumps' = jumps + 1
    /\ UNCHANGED <<sentences, four_words, high_freq_words, practiced_words,
                   practiced_file, progress_file, modified, answer,
                   prev_sentence, prev_answer, output, runs>>

\* lines 211-216: the number typed at the second prompt is in range
JumpTo(inp, number) ==
    /\ pc = "AwaitingInput"
    /\ Dispatch(Strip(inp), answer) = "jump"
    /\ jumps < MaxJumps
    /\ ParseInt(number).ok
    /\ LET target_index == ParseInt(number).val - 1
       IN  /\ 0 <= target_index /\ target_index < Len(sentences)
           /\ current_index' = target_index
    /\ user_input' = Strip(inp)
    /\ pc' = "Presenting"
    /\ jumps' = jumps + 1
    /\ UNCHANGED <<sentences, four_words, high_freq_words, practiced_words,
                   practiced_file, progress_file, modified, answer,
                   prev_sentence, prev_answer, output, runs>>

\* lines 211-220: the number is out of range or int() raised ValueError
JumpRejected(inp, number) ==
    /\ pc = "AwaitingInput"
    /\ Dispatch(Strip(inp), answer) = "jump"
    /\ LET r == ParseInt(number)
       IN  IF r.ok
           THEN /\ ~(0 <= r.val - 1 /\ r.val - 1 < Len(sentences))
                /\ output' = <<Line("out_of_range", <<>>)>>
                               \o Header(current_index, modified)
           ELSE output' = <<Line("not_a_number", <<>>)>>
                            \o Header(current_index, modified)
    /\ user_input' = Strip(inp)
    /\ UNCHANGED <<sentences, four_words, high_freq_words, practiced_words,
                   practiced_file, progress_file, current_index, modified,
                   answer, prev_sentence, prev_answer, pc, runs, jumps>>

\* a correct answer saving the index of the sentence just answered
CorrectAnswer_SavesCurrent(inp) ==
    /\ pc = "AwaitingInput"
    /\ Dispatch(Strip(inp), answer) = "correct"
    /\ user_input' = Strip(inp)
    /\ output' = <<Line("correct", Replace(modified, Placeholder, answer))>>
    /\ practiced_file' = record_practiced_word(answer, practiced_file)
    /\ practiced_words' = practiced_words \cup {answer}
    /\ progress_file' = save_progress(current_index)
    /\ prev_sentence' = modified
    /\ prev_answer' = answer
    /\ current_index' = current_index + 1
    /\ pc' = "Presenting"
    /\ UNCHANGED <<sentences, four_words, high_freq_words, modified, answer,
                   runs, jumps>>

\* lines 221-232
CorrectAnswer(inp) ==
    /\ pc = "AwaitingInput"
    /\ Dispatch(Strip(inp), answer) = "correct"
    /\ user_input' = Strip(inp)
    /\ output' = <<Line("correct", Replace(modified, Placeholder, answer))>>
    /\ practiced_file' = record_practiced_word(answer, practiced_file)
    /\ practiced_words' = practiced_words \cup {answer}
    /\ progress_file' = save_progress(current_index + 1)
    /\ prev_sentence' = modified
    /\ prev_answer' = answer
    /\ current_index' = current_index + 1
    /\ pc' = "Presenting"
    /\ UNCHANGED <<sentences, four_words, high_freq_words, modified, answer,
                   runs, jumps>>

\* WrongAnswer leaving the inner loop, so that the sentence is blanked anew
WrongAnswer_Reblanks(inp) ==
    /\ pc = "AwaitingInput"
    /\ Dispatch(Strip(inp), answer) = "wrong"
    /\ user_input' = Strip(inp)
    /\ output' = <<Line("wrong", answer)>>
    /\ pc' = "Presenting"
    /\ UNCHANGED <<sentences, four_words, high_freq_words, practiced_words,
                   practiced_file, progress_file, current_index, modified,
                   answer, prev_sentence, prev_answer, runs, jumps>>

\* lines 233-234, then 196-197 again
WrongAnswer(inp) ==
    /\ pc = "AwaitingInput"
    /\ Dispatch(Strip(inp), answer) = "wrong"
    /\ user_input' = Strip(inp)
    /\ output' = <<Line("wrong", answer)>> \o Header(current_index, modified)
    /\ UNCHANGED <<sentences, four_words, high_freq_words, practiced_words,
                   practiced_file, progress_file, current_index, modified,
                   answer, prev_sentence, prev_answer, pc, runs, jumps>>

\* the program is started again on the same files (lines 159-183)
Restart ==
    /\ pc \in {"Finished", "Terminated", "Crashed"}
    /\ runs < MaxRuns
    /\ runs' = runs + 1
    /\ StartRun
    /\ UNCHANGED <<sentences, four_words, high_freq_words, practiced_file,
                   progress_file, jumps>>

\* what the user may type at the ": " prompt
Inputs ==
    { <<"q">>, <<"Q">>, <<" ", "p">>, <<"P">>, <<"g">>, <<"G">>,
      answer, answer \o <<" ">>, Lower(answer), <<"z", "z">> }

\* what the user may type at the jump prompt
Numbers ==
    {IntToStr(n) : n \in 0..(Len(sentences) + 1)}
    \cup { <<" ", "+", "1", " ">>, <<"-", "1">>, <<"x">> }

\* every value a token index of some sentence can take
Indices == UNION {0..Len(sentences[k]) : k \in DOMAIN sentences}

Next ==
    \/ Finish
    \/ IndexCrash
    \/ SkipSentence
    \/ \E chosen \in Indices : PresentSentence(chosen)
    \/ \E inp \in Inputs : Quit(inp)
    \/ \E inp \in Inputs : ShowPrevious(inp)
    \/ \E inp \in Inputs, number \in Numbers : JumpTo(inp, number)
    \/ \E inp \in Inputs, number \in Numbers : JumpRejected(inp, number)
    \/ \E inp \in Inputs : CorrectAnswer(inp)
    \/ \E inp \in Inputs : WrongAnswer(inp)
    \/ Restart

Spec == Init /\ [][Next]_vars

\* process_sentence alone, applied to every enumerated sentence
NextSel ==
    \/ SkipSentence
    \/ \E chosen \in Indices : PresentSentence(chosen)

SpecSel == InitSel /\ [][NextSel]_vars

----------------------------------------------------------------------------
(* Properties.                                                             *)

\* the sentence on display and its tokens
CurrentSentence == SentenceAt(current_index)
CurrentTokens == Tokenize(CurrentSentence)
\* the loop head has a sentence with at least one token to present
CanPresent ==
    /\ pc = "Presenting"
    /\ current_index < Len(sentences)
    /\ InRange(current_index)
    /\ CurrentTokens # <<>>

\* C1: in AwaitingInput(i, blanked, answer), an input equal to the answer
\* leads to Presenting(i+1) and to a persisted cursor of i+1.
C1_ExactAnswerAdvances ==
    [][ (pc = "AwaitingInput" /\ user_input' = answer)
        => /\ pc' = "Presenting"
           /\ current_index' = current_index + 1
           /\ load_progress(progress_file') = current_index + 1 ]_vars

\* C2: the current index and the persisted cursor always lie in
\* 0..len(sentences), whatever the progress file held at startup.
C2_CursorInRange ==
    /\ 0 <= current_index /\ current_index <= Len(sentences)
    /\ 0 <= load_progress(progress_file)
    /\ load_progress(progress_file) <= Len(sentences)

\* C3: quit at index i persists the cursor i and terminates, and the next
\* run starts presenting at index i.
C3_QuitPersistsIndex ==
    /\ [](pc = "Terminated" => load_progress(progress_file) = current_index)
    /\ [][ /\ (pc = "AwaitingInput" /\ Lower(user_input') = <<"q">>)
              => /\ pc' = "Terminated"
                 /\ current_index' = current_index
                 /\ load_progress(progress_file') = current_index
           /\ (pc = "Terminated" /\ pc' # "Terminated")
              => /\ pc' = "Presenting"
                 /\ current_index' = current_index ]_vars

\* C3 witness: the second run has just started and resumes at index 1: the
\* first run logged one answer, at index 0, and was quit at index 1 (it did
\* not finish, which takes an answer at index 1 and a cursor of 2).
C3_Witness ==
    /\ sentences = <<S_cat, S_dogs>>
    /\ runs = 1 /\ pc = "Presenting" /\ user_input = <<>>
    /\ current_index = 1
    /\ practiced_file = FileOf(W_The \o <<"\n">>)
    /\ progress_file = FileOf(<<"1">>)

\* C4: whenever the sentence has a token that is in the vocabulary and in
\* neither the high-frequency nor the practiced set, the blanked token is
\* such a token ("The apple is red." with {apple}, {the}, {} blanks "apple").
C4_VocabularyTokenChosen ==
    (/\ pc = "AwaitingInput"
     /\ \E i \in TokenIndices(CurrentTokens) :
           /\ Core(CurrentTokens, i) \in four_words
           /\ Core(CurrentTokens, i) \notin high_freq_words
           /\ Core(CurrentTokens, i) \notin practiced_words)
    => /\ answer \in four_words
       /\ answer \notin high_freq_words
       /\ answer \notin practiced_words

\* tier 1 as section 4.3 defines it
Tier1(tokens) ==
    IF four_words = {} \/ high_freq_words = {} \/ practiced_words = {}
    THEN {}
    ELSE {i \in TokenIndices(tokens) :
            /\ Core(tokens, i) \in four_words
            /\ \E w \in four_words : Lower(w) = Lower(Core(tokens, i))
            /\ ~(Lower(Core(tokens, i)) \in high_freq_words)
            /\ ~(Lower(Core(tokens, i)) \in practiced_words)}
\* tier 2 as section 4.3 defines it
Tier2(tokens) ==
    IF high_freq_words = {} \/ practiced_words = {}
    THEN {}
    ELSE {i \in TokenIndices(tokens) :
            ~(Lower(Core(tokens, i)) \in high_freq_words \cup practiced_words)}
\* the tier the selection policy draws from
ApplicableTier(tokens) ==
    CASE Tier1(tokens) # {} -> Tier1(tokens)
      [] Tier1(tokens) = {} /\ Tier2(tokens) # {} -> Tier2(tokens)
      [] OTHER -> TokenIndices(tokens)

\* C5: the blanked token is a token of the applicable tier (tier 1 if it is
\* non-empty, else tier 2 if it is non-empty, else any token), and the
\* indices the random choice draws from are all those of the applicable tier.
C5_TierOrder ==
    /\ pc = "AwaitingInput"
       => \E i \in ApplicableTier(CurrentTokens) :
             /\ modified = Blank(CurrentTokens, i)
             /\ answer = Core(CurrentTokens, i)
    /\ CanPresent
       => ChoiceSet(CurrentTokens, four_words, high_freq_words,
                    practiced_words) = ApplicableTier(CurrentTokens)

\* C5 witness: a sentence whose tier 1 is a proper non-empty subset of its
\* tier 2 has been blanked.
C5_Witness ==
    /\ pc = "AwaitingInput"
    /\ Tier1(CurrentTokens) # {}
    /\ Tier1(CurrentTokens) # Tier2(CurrentTokens)
    /\ Tier2(CurrentTokens) # TokenIndices(CurrentTokens)

\* core+suffix of every token, concatenated in order
Concatenation(tokens) ==
    Join([k \in DOMAIN tokens |-> tokens[k][1] \o tokens[k][2]])

\* C6: concatenating core+suffix over the tokens of a sentence gives the
\* sentence back.
C6_TokenizationLossless ==
    pc = "AwaitingInput" => Concatenation(CurrentTokens) = CurrentSentence

\* C7: the blanked sentence is the original sentence with the answer's
\* occurrence at one place replaced by the placeholder and every other
\* character unchanged.
C7_BlankedDiffersInOneCore ==
    pc = "AwaitingInput"
    => \E p \in 1..Len(CurrentSentence) :
          /\ SubSeq(CurrentSentence, p, p + Len(answer) - 1) = answer
          /\ modified = SubSeq(CurrentSentence, 1, p - 1) \o Placeholder
                        \o SubSeq(CurrentSentence, p + Len(answer),
                                  Len(CurrentSentence))

\* the unchanged part of the state on a jump
JumpFrame ==
    UNCHANGED <<progress_file, practiced_file, practiced_words,
                prev_sentence, prev_answer>>

\* C8: a jump to n in 1..len(sentences) sets the index to n-1, goes to
\* Presenting and changes neither the persisted cursor, the log, the
\* practiced set nor the session memory; jumps to 0 and to len(sentences)+1
\* are rejected and leave the index unchanged.
C8_JumpBounds ==
    /\ [](pc = "AwaitingInput" /\ jumps < MaxJumps
          => /\ \A n \in 1..Len(sentences) :
                   ENABLED (JumpTo(<<"g">>, IntToStr(n))
                            /\ current_index' = n - 1 /\ pc' = "Presenting")
             /\ \A n \in {0, Len(sentences) + 1} :
                   /\ ~ENABLED JumpTo(<<"g">>, IntToStr(n))
                   /\ ENABLED (JumpRejected(<<"g">>, IntToStr(n))
                               /\ current_index' = current_index
                               /\ pc' = "AwaitingInput"))
    /\ [][ (pc = "AwaitingInput" /\ Lower(user_input') = <<"g">>)
           => /\ JumpFrame
              /\ \/ pc' = "AwaitingInput" /\ current_index' = current_index
                 \/ /\ pc' = "Presenting"
                    /\ 0 <= current_index'
                    /\ current_index' < Len(sentences) ]_vars

\* C8 witness: a jump to the last sentence from an earlier one, with a
\* cursor already persisted.
C8_Witness ==
    /\ pc = "Presenting" /\ Lower(user_input) = <<"g">>
    /\ jumps = 1
    /\ current_index = Len(sentences) - 1
    /\ progress_file = FileOf(<<"1">>)
    /\ Len(sentences) = 3

\* what an answer, a quit or a successful jump may change and the three
\* other inputs may not
SessionFrame ==
    UNCHANGED <<current_index, modified, answer, progress_file,
                practiced_file, practiced_words, prev_sentence, prev_answer>>

\* C9: an incorrect answer, a rejected jump and show-previous keep the
\* session in AwaitingInput with the same index, blanked form and answer,
\* leave cursor, log, practiced set and session memory unchanged, and can
\* be repeated without limit.
C9_NoEffectInputs ==
    /\ [](pc = "AwaitingInput"
          => /\ ENABLED WrongAnswer(<<"z", "z">>)
             /\ ENABLED ShowPrevious(<<"P">>)
             /\ ENABLED JumpRejected(<<"G">>, <<"x">>)
             /\ ENABLED JumpRejected(<<"g">>, <<"0">>))
    /\ [][ (/\ pc = "AwaitingInput"
            /\ \/ Dispatch(user_input', answer) \in {"wrong", "previous"}
               \/ Dispatch(user_input', answer) = "jump" /\ pc' # "Presenting")
           => pc' = "AwaitingInput" /\ SessionFrame ]_vars

\* C9 witness: a wrong answer was given after an earlier correct one and
\* the session still waits at the same sentence.
C9_Witness ==
    /\ pc = "AwaitingInput"
    /\ user_input = <<"z", "z">>
    /\ prev_answer # None
    /\ progress_file.exists
    /\ output[1] = Line("wrong", answer)

\* C10: a token whose core equals, up to letter case, an entry of the
\* high-frequency set or of the practiced set is in neither tier.
C10_CaseInsensitiveExclusion ==
    pc = "AwaitingInput"
    => \A i \in primary_candidates(CurrentTokens, four_words,
                                   high_freq_words, practiced_words)
               \cup secondary_candidates(CurrentTokens, high_freq_words,
                                         practiced_words) :
          ~\E w \in high_freq_words \cup practiced_words :
               Lower(w) = Lower(Core(CurrentTokens, i))

----------------------------------------------------------------------------
\* some token of the sentence has this core
HasCore(sentence, word) ==
    \E i \in TokenIndices(Tokenize(sentence)) :
        Core(Tokenize(sentence), i) = word

\* C11: show-previous prints 'nothing yet' while no correct answer was given
\* in the run; afterwards it prints a sentence of the text as it was before
\* blanking, character for character, and the answer of that drill; the
\* session memory is empty when a run starts and only a correct answer
\* writes it.
C11_ShowPreviousRendersOriginal ==
    /\ [](pc = "Presenting" /\ user_input = <<>> /\ output = <<>>
          => prev_sentence = None /\ prev_answer = None)
    /\ [][ /\ (pc = "AwaitingInput" /\ Lower(user_input') = <<"p">>)
              => IF prev_answer = None
                 THEN output'[1] = Line("nothing_yet", <<>>)
                 ELSE /\ output'[2] = Line("missing", prev_answer)
                      /\ \E k \in DOMAIN sentences :
                           /\ output'[1] = Line("previous", sentences[k])
                           /\ HasCore(sentences[k], prev_answer)
           /\ (runs' = runs /\ <<prev_sentence, prev_answer>>'
                                 # <<prev_sentence, prev_answer>>)
              => /\ pc = "AwaitingInput"
                 /\ user_input' = answer
                 /\ prev_answer' = answer ]_vars

----------------------------------------------------------------------------
\* the input read in this step is no command and equals the answer
AnsweredCorrectly ==
    /\ pc = "AwaitingInput"
    /\ Lower(user_input') \notin { <<"q">>, <<"p">>, <<"g">> }
    /\ user_input' = answer

\* C12: the practiced-word log only grows at its end: a correct answer
\* appends one line holding the answer after the unchanged earlier content,
\* and no other step writes the log, so the lines appended in a run are the
\* correct answers given in it, one each.
C12_LogAppendOnly ==
    [][ IF AnsweredCorrectly
        THEN /\ practiced_file'.exists
             /\ practiced_file'.content
                  = practiced_file.content \o answer \o <<"\n">>
        ELSE practiced_file' = practiced_file ]_vars

\* C12 witness: two answers were appended after the line the log already
\* held when the run started.
C12_Witness ==
    /\ pc = "Finished"
    /\ runs = 0
    /\ practiced_file
         = FileOf(W_cat \o <<"\n">> \o W_The \o <<"\n">> \o W_Dogs \o <<"\n">>)

----------------------------------------------------------------------------
\* C13: at a sentence without any token the session goes from Presenting(i)
\* to Presenting(i+1) and reads no input, prints nothing and leaves the
\* persisted cursor, the log, the practiced set and the session memory as
\* they were; a later start of the program resumes from the cursor that is
\* in the progress file, which the skip did not move.
C13_DegenerateSkipped ==
    /\ [][ (/\ pc = "Presenting"
            /\ current_index < Len(sentences)
            /\ InRange(current_index)
            /\ CurrentTokens = <<>>)
           => /\ pc' = "Presenting"
              /\ current_index' = current_index + 1
              /\ UNCHANGED <<user_input, output, progress_file,
                             practiced_file, practiced_words,
                             prev_sentence, prev_answer>> ]_vars
    /\ [][ runs' # runs
           => /\ current_index' = load_progress(progress_file)
              /\ progress_file' = progress_file ]_vars

\* C13 witness: the second run started at the saved cursor 2, skipped the
\* token-less last sentence again and the cursor is still 2.
C13_Witness ==
    /\ runs = 1
    /\ sentences = <<S_three, S_ok, S_num>>
    /\ pc = "Presenting"
    /\ current_index = 3
    /\ user_input = <<>>
    /\ output = <<>>
    /\ prev_answer = None
    /\ progress_file = FileOf(<<"2">>)

----------------------------------------------------------------------------
NoWordLists ==
    four_words = {} /\ high_freq_words = {} /\ practiced_words = {}

\* the sentence holds a Latin letter or an ideograph
HasLetter(sentence) ==
    \E i \in DOMAIN sentence : IsLatin(sentence[i]) \/ IsCJK(sentence[i])

\* C14: with the vocabulary, high-frequency and practiced sets all empty,
\* process_sentence succeeds on every sentence that has a token, any of its
\* token indices can be the chosen one, and it fails only on a sentence
\* without tokens.
C14_FallbackAlwaysSucceeds ==
    /\ [](/\ NoWordLists
          /\ pc = "Presenting"
          /\ current_index < Len(sentences)
          /\ InRange(current_index)
          => /\ ChoiceSet(CurrentTokens, four_words, high_freq_words,
                          practiced_words) = 0..(Len(CurrentTokens) - 1)
             /\ HasLetter(CurrentSentence) => CurrentTokens # <<>>)
    /\ [][ (NoWordLists /\ pc = "Presenting")
           => IF CurrentTokens = <<>>
              THEN pc' = "Presenting" /\ UNCHANGED <<modified, answer>>
              ELSE /\ pc' = "AwaitingInput"
                   /\ \E i \in 0..(Len(CurrentTokens) - 1) :
                        /\ answer' = Core(CurrentTokens, i)
                        /\ modified' = Blank(CurrentTokens, i) ]_vars

\* C14 witness: without word lists the last of several tokens was blanked.
C14_Witness ==
    /\ NoWordLists
    /\ pc = "AwaitingInput"
    /\ Len(CurrentTokens) >= 2
    /\ answer = Core(CurrentTokens, Len(CurrentTokens) - 1)
    /\ modified = Blank(CurrentTokens, Len(CurrentTokens) - 1)

----------------------------------------------------------------------------
(* save_progress and load_progress on their own: any index is saved over   *)
(* any progress file and read back.                                        *)

StoredFiles ==
    ProgressFiles \cup { FileOf(<<>>), FileOf(<<"1", ".", "5">>) }

InitStore == \E pf \in StoredFiles : InitWith(<<>>, NoWords, pf)

\* lines 130-133 applied to the index v
SaveProgress(v) ==
    /\ current_index' = v
    /\ progress_file' = save_progress(v)
    /\ pc' = "Saved"
    /\ UNCHANGED <<sentences, four_words, high_freq_words, practiced_words,
                   practiced_file, modified, answer, prev_sentence,
                   prev_answer, user_input, output, runs, jumps>>

\* lines 136-142 applied to the progress file
LoadProgress ==
    /\ current_index' = load_progress(progress_file)
    /\ pc' = "Loaded"
    /\ UNCHANGED <<sentences, four_words, high_freq_words, practiced_words,
                   practiced_file, progress_file, modified, answer,
                   prev_sentence, prev_answer, user_input, output, runs,
                   jumps>>

NextStore ==
    \/ \E v \in 0..MaxSaved : SaveProgress(v)
    \/ LoadProgress

SpecStore == InitStore /\ [][NextStore]_vars

\* text int() certainly rejects: no digit in it, or a character that is no
\* digit, sign, underscore or white space
NotAnInteger(content) ==
    \/ ~\E i \in DOMAIN content : IsDigit(content[i])
    \/ \E i \in DOMAIN content :
          /\ ~IsDigit(content[i])
          /\ ~IsSpace(content[i])
          /\ content[i] \notin {"+", "-", "_"}

\* C15: load_progress after save_progress(v) returns v for every v >= 0,
\* whatever the progress file held before the save; load_progress returns 0
\* when the file is missing or its content is no integer.
C15_ProgressRoundTrip ==
    /\ [](pc = "Saved" => load_progress(progress_file) = current_index)
    /\ [][ (pc = "Saved" /\ pc' = "Loaded")
           => current_index' = current_index ]_vars
    /\ [](/\ pc \in {"Presenting", "Loaded"}
          /\ \/ ~progress_file.exists
             \/ NotAnInteger(progress_file.content)
          => current_index = 0)

\* C15 witness: a three-digit index was saved and read back.
C15_Witness ==
    /\ pc = "Loaded"
    /\ current_index = MaxSaved
    /\ progress_file.exists
    /\ Len(progress_file.content) = 3

----------------------------------------------------------------------------
\* C16: in AwaitingInput the letters q, p and g in either case are the quit,
\* show-previous and jump commands; any other input is an answer attempt,
\* which either equals the answer with the same letter case and advances to
\* the next sentence, or is incorrect, gets the answer revealed and leaves
\* the session at the same sentence.
C16_CommandSurface ==
    /\ [](pc = "AwaitingInput"
          => /\ ENABLED Quit(<<"Q">>)
             /\ ENABLED Quit(<<"q">>)
             /\ ENABLED ShowPrevious(<<"P">>)
             /\ ENABLED JumpRejected(<<"G">>, <<"x">>))
    /\ [][ pc = "AwaitingInput"
           => CASE Lower(user_input') = <<"q">>
                     -> pc' = "Terminated"
                [] Lower(user_input') = <<"p">>
                     -> /\ pc' = "AwaitingInput"
                        /\ output'[1].kind \in {"previous", "nothing_yet"}
                        /\ SessionFrame
                [] Lower(user_input') = <<"g">>
                     -> \/ pc' = "Presenting" /\ JumpFrame
                        \/ /\ pc' = "AwaitingInput"
                           /\ output'[1].kind
                                \in {"out_of_range", "not_a_number"}
                           /\ SessionFrame
                [] OTHER
                     -> IF user_input' = answer
                        THEN /\ pc' = "Presenting"
                             /\ current_index' = current_index + 1
                             /\ output'[1].kind = "correct"
                        ELSE /\ pc' = "AwaitingInput"
                             /\ output'[1] = Line("wrong", answer)
                             /\ SessionFrame ]_vars

\* C16 witness: an upper-case P was taken as show-previous after a correct
\* answer.
C16_Witness ==
    /\ pc = "AwaitingInput"
    /\ user_input = <<"P">>
    /\ prev_answer # None
    /\ output[1].kind = "previous"

----------------------------------------------------------------------------
\* C17: Finished is entered exactly from Presenting(i) with
\* i >= len(sentences) and Terminated exactly by the quit command; in both
\* no input is read any more and the persisted cursor, the log and the
\* practiced set stay as they are: the only step left is a new start of the
\* program, which writes neither file.
C17_TerminalStates ==
    /\ [](pc \in {"Finished", "Terminated"}
          => /\ ~ENABLED Finish
             /\ ~ENABLED SkipSentence
             /\ ~ENABLED Quit(<<"q">>)
             /\ ~ENABLED ShowPrevious(<<"p">>)
             /\ ~ENABLED JumpRejected(<<"g">>, <<"x">>)
             /\ ~ENABLED CorrectAnswer(answer)
             /\ ~ENABLED WrongAnswer(<<"z", "z">>))
    /\ [][ /\ (pc' = "Finished" /\ pc # "Finished")
              => (pc = "Presenting" /\ current_index >= Len(sentences))
           /\ (pc = "Presenting" /\ current_index >= Len(sentences))
              => pc' = "Finished"
           /\ (pc' = "Terminated" /\ pc # "Terminated")
              <=> (pc = "AwaitingInput" /\ Lower(user_input') = <<"q">>)
           /\ pc \in {"Finished", "Terminated"}
              => /\ runs' = runs + 1
                 /\ UNCHANGED <<progress_file, practiced_file>> ]_vars

\* C17 witness: a run ended in Finished after its last sentence was
\* answered.
C17_Witness ==
    /\ pc = "Finished"
    /\ runs = 0
    /\ Len(sentences) >= 2
    /\ current_index = Len(sentences)
    /\ prev_answer # None
    /\ user_input = prev_answer

----------------------------------------------------------------------------
\* the run began at an index below len(sentences): it has answered a
\* sentence, or it has saved nothing and its start index is still the one
\* in the progress file
StartedBelowLen ==
    \/ prev_answer # None
    \/ load_progress(progress_file) < Len(sentences)

LastSentenceHasToken ==
    /\ sentences # <<>>
    /\ Tokenize(sentences[Len(sentences)]) # <<>>

\* C18: whenever a session that started with a cursor below len(sentences)
\* is in Finished, the persisted cursor equals len(sentences), also when the
\* last sentences have no token and were skipped.
C18_FinishedCursorIsLen ==
    (pc = "Finished" /\ StartedBelowLen)
    => load_progress(progress_file) = Len(sentences)

\* C18 as amended: the persisted cursor equals len(sentences) in Finished
\* when the run started below len(sentences) and the last sentence has a
\* token, and the next start then goes straight to Finished; skipping a
\* sentence and leaving the loop save nothing.
C18_FinishedAfterLastAnswer ==
    /\ []((pc = "Finished" /\ StartedBelowLen /\ LastSentenceHasToken)
          => load_progress(progress_file) = Len(sentences))
    /\ [][ /\ (/\ pc = "Finished" /\ StartedBelowLen /\ LastSentenceHasToken
               /\ runs' # runs)
              => current_index' = Len(sentences) /\ pc' = "Presenting"
           /\ (pc = "Presenting" /\ pc' \in {"Presenting", "Finished"})
              => UNCHANGED progress_file ]_vars

\* C18 witness: the three-sentence text was answered to its end and the
\* progress file holds 3.
C18_Witness ==
    /\ pc = "Finished"
    /\ runs = 0
    /\ sentences = <<S_say, S_num, S_go>>
    /\ StartedBelowLen
    /\ prev_sentence # None
    /\ progress_file = FileOf(<<"3">>)

----------------------------------------------------------------------------
\* C19: in every state the practiced set in memory is the set
\* load_words_from_file reads from the log as it is then, and within a run
\* the set only grows.
C19_PracticedMatchesLog ==
    /\ [](practiced_words = load_words_from_file(practiced_file))
    /\ [][ runs' = runs => practiced_words \subseteq practiced_words' ]_vars

----------------------------------------------------------------------------
(* The session of a user who types, at every prompt, the answer of the     *)
(* sentence shown, also at the prompt for a sentence number: main()        *)
(* dispatches that input like any other, and the loop and the user keep    *)
(* taking their next step.                                                 *)

S_keys == <<"T","a","p"," ","p"," ","o","r"," ","g",".">>

LiveTexts ==
    { <<S_say, S_num, S_go>>, <<S_cat, S_dogs>>, <<S_keys, S_ok>>,
      <<S_three, S_ok, S_num>> }

\* lines 159-183 with a saved cursor in 0..len(sentences)
InitLive ==
    \E text \in LiveTexts, w \in WordSetups, pf \in ProgressFiles :
        /\ InitWith(text, w, pf)
        /\ 0 <= load_progress(pf)
        /\ load_progress(pf) <= Len(text)

NextLive ==
    \/ Finish
    \/ SkipSentence
    \/ \E chosen \in Indices : PresentSentence(chosen)
    \/ Quit(answer)
    \/ ShowPrevious(answer)
    \/ JumpRejected(answer, answer)
    \/ CorrectAnswer(answer)

SpecLive == InitLive /\ [][NextLive]_vars /\ WF_vars(NextLive)

\* C20: when the user types the exact answer of every sentence shown and
\* never asks to quit or to jump, every move to a Presenting state goes to
\* a higher index and the session eventually reaches Finished.
C20_EventuallyFinished ==
    /\ [][ pc' = "Presenting" => current_index' > current_index ]_vars
    /\ <>(pc = "Finished")

====
